---- MODULE Spec2Model ----
(***************************************************************************)
(* The chained hash table of sfcUtil/hashtable.c: bucket array, collision  *)
(* chains, put/get/remove/removeAll, the contains queries, rehash and its   *)
(* sizing policy, the first/next cursor, the release callbacks and the     *)
(* operation table.                                                        *)
(*                                                                         *)
(* A chain is the sequence of its pairs from the bucket head along the     *)
(* next pointers; bucket index b of the C array is position b + 1 of       *)
(* bucketArray.  Keys and values are references (addresses); the text a    *)
(* key points at is Content(key).  The float ratios of the code are exact  *)
(* on the small integers of the model, so they are compared as integers.   *)
(***************************************************************************)
EXTENDS Integers, Sequences, FiniteSets, TLC

VARIABLES bucketArray, numOfBuckets, numOfElements, keycmp, hashFunction, ret,
          keyDeallocator, valueDeallocator, deallocated, iter,
          elementCount, idealNumOfBuckets, valuecmp

vars == <<bucketArray, numOfBuckets, numOfElements, keycmp, hashFunction, ret,
          keyDeallocator, valueDeallocator, deallocated, iter,
          elementCount, idealNumOfBuckets, valuecmp>>

\* the element count handed to the sizing policy and the count it answered
sizingVars == <<elementCount, idealNumOfBuckets>>

\* the strategies of the table
strategyVars == <<keycmp, valuecmp, hashFunction, keyDeallocator,
                  valueDeallocator>>

(* ------------------------------ bounds -------------------------------- *)

\* number of distinct key references the client of Spec and SpecSetters uses
NumKeys == 3

\* largest bucket count the client passes to create and to rehash
MaxBuckets == 3

\* number of distinct key references the client of SpecGrow inserts
MaxGrow == 17

\* most pairs the client of SpecSetters lets the table hold
MaxElements == 2

\* largest element count handed to the sizing policy
MaxCount == 8430

\* number of puts the client of SpecOrder numbers
MaxStamp == 4

\* number of distinct key references the client of SpecLoad inserts
MaxLoad == 24

(* --------------------------- program constants ------------------------ *)

NULL == 0

IdealRatio == 3

\* mutant: the lower threshold is enabled, just below the ideal ratio
LowerRehashThresholdEnabled == IdealRatio - 1

LowerRehashThreshold == 0

UpperRehashThreshold == 15

\* the bucket count HashTableRemoveAll rehashes to
ClearedNumOfBuckets == 5

(* ------------------------ references of the client --------------------- *)

\* key references: 16, 24, 32, ...  (two of them share a 16-byte block)
KeyRef(i) == 8 + 8 * i

Keys == {KeyRef(i) : i \in 1..NumKeys}

\* the text a key reference points at: references 16 and 32 hold equal text
Content(key) == IF (key \div 8) % 2 = 0 THEN <<97, 98>> ELSE <<97, 99>>

\* key references of the fill workload: one per 16-byte block
GrowKeyRef(i) == 16 * i

GrowKeys == {GrowKeyRef(i) : i \in 1..MaxGrow}

Values == {1, 2}

KeyCmpFunctions == {"pointercmp", "strcmp"}

HashFunctions == {"pointerHashFunction", "stringHashFunction"}

(* ------------------------- strategy functions ------------------------- *)

pointercmp(pointer1, pointer2) == IF pointer1 # pointer2 THEN 1 ELSE 0

RECURSIVE strcmp(_, _)
strcmp(s1, s2) ==
    IF s1 = <<>> /\ s2 = <<>> THEN 0
    ELSE IF s1 = <<>> THEN -1
    ELSE IF s2 = <<>> THEN 1
    ELSE IF Head(s1) < Head(s2) THEN -1
    ELSE IF Head(s1) > Head(s2) THEN 1
    ELSE strcmp(Tail(s1), Tail(s2))

pointerHashFunction(pointer) == pointer \div 16

\* hashValue = hashValue * 37 + str[i]; the texts of the model stay far
\* below the width of unsigned long
RECURSIVE StringHash(_, _)
StringHash(str, hashValue) ==
    IF str = <<>> THEN hashValue
    ELSE StringHash(Tail(str), hashValue * 37 + Head(str))

HashTableStringHashFunction(key) == StringHash(Content(key), 0)

\* hashTable->keycmp(key1, key2)
KeyCmp(kc, key1, key2) ==
    IF kc = "pointercmp" THEN pointercmp(key1, key2)
    ELSE strcmp(Content(key1), Content(key2))

\* hashTable->valuecmp(value1, value2)
ValueCmp(vc, value1, value2) ==
    IF vc = "pointercmp" THEN pointercmp(value1, value2)
    ELSE strcmp(Content(value1), Content(value2))

\* hashTable->hashFunction(key)
Hash(hf, key) ==
    IF hf = "pointerHashFunction" THEN pointerHashFunction(key)
    ELSE HashTableStringHashFunction(key)

\* hashTable->hashFunction(key) % hashTable->numOfBuckets
HashValue(hf, key, nb) == Hash(hf, key) % nb

(* ---------------------------- sizing policy --------------------------- *)

RECURSIVE ProbablePrimeFrom(_, _)
ProbablePrimeFrom(oddNumber, i) ==
    IF i >= 51 THEN TRUE
    ELSE IF oddNumber = i THEN TRUE
    ELSE IF oddNumber % i = 0 THEN FALSE
    ELSE ProbablePrimeFrom(oddNumber, i + 2)

isProbablePrime(oddNumber) == ProbablePrimeFrom(oddNumber, 3)

RECURSIVE NextProbablePrime(_)
NextProbablePrime(n) ==
    IF isProbablePrime(n) THEN n ELSE NextProbablePrime(n + 2)

\* mutant: the quotient is not made odd
calculateIdealNumOfBucketsKeepsEven(ne) ==
    LET quotient == ne \div IdealRatio
        start == IF quotient < 5 THEN 5 ELSE quotient
    IN  NextProbablePrime(start)

\* mutant: the element count is divided by the upper threshold, and the
\* quotient is made odd without the floor of 5
calculateIdealNumOfBucketsByThreshold(ne) ==
    LET quotient == ne \div UpperRehashThreshold
    IN  NextProbablePrime(IF quotient % 2 = 0 THEN quotient + 1 ELSE quotient)

calculateIdealNumOfBuckets(ne) ==
    LET quotient == ne \div IdealRatio
        start == IF quotient < 5 THEN 5
                 ELSE IF quotient % 2 = 0 THEN quotient + 1 ELSE quotient
    IN  NextProbablePrime(start)

(* ------------------------------- chains ------------------------------- *)

EmptyArray(nb) == [b \in 1..nb |-> <<>>]

\* mutant: the references are compared, not the keys by keycmp
RECURSIVE ScanChainByPointer(_, _, _, _)
ScanChainByPointer(chain, kc, key, i) ==
    IF i > Len(chain) THEN 0
    ELSE IF pointercmp(key, chain[i].key) = 0 THEN i
    ELSE ScanChainByPointer(chain, kc, key, i + 1)

\* mutant: only the head of the chain is compared
ScanChainHeadOnly(chain, kc, key, i) ==
    IF chain # <<>> /\ KeyCmp(kc, key, chain[1].key) = 0 THEN 1 ELSE 0

\* mutant: the loop compares no key and stops at the head of the chain
ScanChainTakesHead(chain, kc, key, i) == IF chain = <<>> THEN 0 ELSE 1

\* position of the first pair of the chain whose key compares equal, 0 if none
RECURSIVE ScanChain(_, _, _, _)
ScanChain(chain, kc, key, i) ==
    IF i > Len(chain) THEN 0
    ELSE IF KeyCmp(kc, key, chain[i].key) = 0 THEN i
    ELSE ScanChain(chain, kc, key, i + 1)

\* mutant: the bucket head is set to pair->next whatever the previous pair
RemoveAtDropsPrefix(chain, i) == SubSeq(chain, i + 1, Len(chain))

\* mutant: a pair that has a previous pair is not unlinked
RemoveAtHeadOnly(chain, i) == IF i = 1 THEN Tail(chain) ELSE chain

\* previousPair->next = pair->next, or bucketArray[hashValue] = pair->next
RemoveAt(chain, i) == SubSeq(chain, 1, i - 1) \o SubSeq(chain, i + 1, Len(chain))

\* the pairs in the order the rehash loop meets them: buckets ascending,
\* each chain from its head
RECURSIVE PairsFrom(_, _, _)
PairsFrom(ba, nb, b) ==
    IF b >= nb THEN <<>> ELSE ba[b + 1] \o PairsFrom(ba, nb, b + 1)

\* mutant: the value, not the key, is hashed for the new bucket
RECURSIVE RelinkHashesValue(_, _, _, _)
RelinkHashesValue(pairs, newBucketArray, hf, newNb) ==
    IF pairs = <<>> THEN newBucketArray
    ELSE LET pair == Head(pairs)
             hashValue == HashValue(hf, pair.value, newNb)
         IN  RelinkHashesValue(Tail(pairs),
                    [newBucketArray EXCEPT ![hashValue + 1] = <<pair>> \o @],
                    hf, newNb)

\* mutant: pair->next is not set to the head of the new bucket
RECURSIVE RelinkOverwrites(_, _, _, _)
RelinkOverwrites(pairs, newBucketArray, hf, newNb) ==
    IF pairs = <<>> THEN newBucketArray
    ELSE LET pair == Head(pairs)
             hashValue == HashValue(hf, pair.key, newNb)
         IN  RelinkOverwrites(Tail(pairs),
                    [newBucketArray EXCEPT ![hashValue + 1] = <<pair>>],
                    hf, newNb)

\* mutant: the pair is linked behind the pairs already in the new bucket
RECURSIVE RelinkAppends(_, _, _, _)
RelinkAppends(pairs, newBucketArray, hf, newNb) ==
    IF pairs = <<>> THEN newBucketArray
    ELSE LET pair == Head(pairs)
             hashValue == HashValue(hf, pair.key, newNb)
         IN  RelinkAppends(Tail(pairs),
                    [newBucketArray EXCEPT ![hashValue + 1] = @ \o <<pair>>],
                    hf, newNb)

\* pair->next = newBucketArray[hashValue]; newBucketArray[hashValue] = pair
RECURSIVE Relink(_, _, _, _)
Relink(pairs, newBucketArray, hf, newNb) ==
    IF pairs = <<>> THEN newBucketArray
    ELSE LET pair == Head(pairs)
             hashValue == HashValue(hf, pair.key, newNb)
         IN  Relink(Tail(pairs),
                    [newBucketArray EXCEPT ![hashValue + 1] = <<pair>> \o @],
                    hf, newNb)

\* mutant: the old bucket array is given up before the new one is obtained
HashTableRehashLosesOnFailure(ba, nb, ne, hf, n, arrayAlloc) ==
    LET target == IF n = 0 THEN calculateIdealNumOfBuckets(ne) ELSE n
    IN  IF target = nb THEN [bucketArray |-> ba, numOfBuckets |-> nb]
        ELSE IF ~arrayAlloc
        THEN [bucketArray |-> EmptyArray(nb), numOfBuckets |-> nb]
        ELSE [bucketArray |-> Relink(PairsFrom(ba, nb, 0), EmptyArray(target),
                                     hf, target),
              numOfBuckets |-> target]

\* mutant: hashTable->numOfBuckets is not updated
HashTableRehashKeepsCount(ba, nb, ne, hf, n, arrayAlloc) ==
    LET target == IF n = 0 THEN calculateIdealNumOfBuckets(ne) ELSE n
    IN  IF target = nb THEN [bucketArray |-> ba, numOfBuckets |-> nb]
        ELSE IF ~arrayAlloc THEN [bucketArray |-> ba, numOfBuckets |-> nb]
        ELSE [bucketArray |-> Relink(PairsFrom(ba, nb, 0), EmptyArray(target),
                                     hf, target),
              numOfBuckets |-> nb]

\* mutant: the new bucket count is stored before the new array is obtained
HashTableRehashCountsFirst(ba, nb, ne, hf, n, arrayAlloc) ==
    LET target == IF n = 0 THEN calculateIdealNumOfBuckets(ne) ELSE n
    IN  IF target = nb THEN [bucketArray |-> ba, numOfBuckets |-> nb]
        ELSE IF ~arrayAlloc THEN [bucketArray |-> ba, numOfBuckets |-> target]
        ELSE [bucketArray |-> Relink(PairsFrom(ba, nb, 0), EmptyArray(target),
                                     hf, target),
              numOfBuckets |-> target]

\* mutant: a rehash to the bucket count the table has relinks the pairs too
HashTableRehashAlways(ba, nb, ne, hf, n, arrayAlloc) ==
    LET target == IF n = 0 THEN calculateIdealNumOfBuckets(ne) ELSE n
    IN  IF ~arrayAlloc THEN [bucketArray |-> ba, numOfBuckets |-> nb]
        ELSE [bucketArray |-> Relink(PairsFrom(ba, nb, 0), EmptyArray(target),
                                     hf, target),
              numOfBuckets |-> target]

\* mutant: the ideal bucket count is taken whatever count is asked for
HashTableRehashIgnoresRequest(ba, nb, ne, hf, n, arrayAlloc) ==
    LET target == calculateIdealNumOfBuckets(ne)
    IN  IF target = nb THEN [bucketArray |-> ba, numOfBuckets |-> nb]
        ELSE IF ~arrayAlloc THEN [bucketArray |-> ba, numOfBuckets |-> nb]
        ELSE [bucketArray |-> Relink(PairsFrom(ba, nb, 0), EmptyArray(target),
                                     hf, target),
              numOfBuckets |-> target]

\* HashTableRehash on a table (ba, nb, ne) with hash function hf; arrayAlloc
\* is whether malloc of the new bucket array succeeds
HashTableRehash(ba, nb, ne, hf, n, arrayAlloc) ==
    LET target == IF n = 0 THEN calculateIdealNumOfBuckets(ne) ELSE n
    IN  IF target = nb THEN [bucketArray |-> ba, numOfBuckets |-> nb]
        ELSE IF ~arrayAlloc THEN [bucketArray |-> ba, numOfBuckets |-> nb]
        ELSE [bucketArray |-> Relink(PairsFrom(ba, nb, 0), EmptyArray(target),
                                     hf, target),
              numOfBuckets |-> target]

(* ------------------------------- queries ------------------------------ *)

\* HashTableGet on the table (ba, nb) under (kc, hf)
GetIn(ba, nb, kc, hf, key) ==
    LET chain == ba[HashValue(hf, key, nb) + 1]
        i == ScanChain(chain, kc, key, 1)
    IN  IF i = 0 THEN NULL ELSE chain[i].value

HashTableGet(key) == GetIn(bucketArray, numOfBuckets, keycmp, hashFunction, key)

HashTableContainsKey(key) == HashTableGet(key) # NULL

\* mutant: the references are compared, not the values by valuecmp
RECURSIVE ScanValuesByPointer(_, _, _, _)
ScanValuesByPointer(pairs, vc, value, i) ==
    IF i > Len(pairs) THEN 0
    ELSE IF pointercmp(value, pairs[i].value) = 0 THEN 1
    ELSE ScanValuesByPointer(pairs, vc, value, i + 1)

\* the loops of HashTableContainsValue over pairs, the pairs of all chains
\* in bucket order: 1 at the first value that compares equal, 0 if none does
RECURSIVE ScanValues(_, _, _, _)
ScanValues(pairs, vc, value, i) ==
    IF i > Len(pairs) THEN 0
    ELSE IF ValueCmp(vc, value, pairs[i].value) = 0 THEN 1
    ELSE ScanValues(pairs, vc, value, i + 1)

HashTableContainsValue(value) ==
    ScanValues(PairsFrom(bucketArray, numOfBuckets, 0), valuecmp, value, 1)

HashTableIsEmpty == numOfElements = 0

HashTableSize == numOfElements

HashTableGetNumBuckets == numOfBuckets

(* ------------------------------- cursor ------------------------------- *)

\* a cursor is (bucket, pair): pair is the position in the chain of bucket of
\* the pair it points at.  state is "live" for a cursor handed to the caller,
\* "null" for the absent result (the cursor freed), "fault" for the write
\* through the null pointer of a failed, unchecked allocation
Cursor(b, i) == [state |-> "live", bucket |-> b, pair |-> i]

NullCursor == [state |-> "null", bucket |-> 0, pair |-> 0]

FaultCursor == [state |-> "fault", bucket |-> 0, pair |-> 0]

\* for (iter->bucket = b; iter->bucket < numOfBuckets; iter->bucket++)
RECURSIVE FirstFrom(_, _, _)
FirstFrom(ba, nb, b) ==
    IF b >= nb THEN NullCursor
    ELSE IF ba[b + 1] # <<>> THEN Cursor(b, 1)
    ELSE FirstFrom(ba, nb, b + 1)

\* iterAlloc: whether NEW(HashTableIterator) succeeds
hashTableGetFirst(ba, nb, iterAlloc) ==
    IF ~iterAlloc THEN FaultCursor ELSE FirstFrom(ba, nb, 0)

\* mutant: the last bucket is never entered
RECURSIVE NextFromSkipsLast(_, _, _, _)
NextFromSkipsLast(ba, nb, b, i) ==
    IF b >= nb THEN NullCursor
    ELSE IF i = 0
         THEN IF b + 1 < nb - 1
              THEN NextFromSkipsLast(ba, nb, b + 1,
                                     IF ba[b + 2] = <<>> THEN 0 ELSE 1)
              ELSE NullCursor
         ELSE Cursor(b, i)

\* while (iter->bucket < numOfBuckets): i = 0 stands for iter->pair == NULL
RECURSIVE NextFrom(_, _, _, _)
NextFrom(ba, nb, b, i) ==
    IF b >= nb THEN NullCursor
    ELSE IF i = 0
         THEN IF b + 1 < nb
              THEN NextFrom(ba, nb, b + 1, IF ba[b + 2] = <<>> THEN 0 ELSE 1)
              ELSE NullCursor
         ELSE Cursor(b, i)

\* iter->pair = iter->pair->next, then the loop
hashTableGetNext(ba, nb, it) ==
    NextFrom(ba, nb, it.bucket,
             IF it.pair < Len(ba[it.bucket + 1]) THEN it.pair + 1 ELSE 0)

\* The cursor the caller holds over calls that change the table names its
\* pair by the key reference of the pair (pair is NULL for none): the pair
\* may move to another chain while the cursor keeps its bucket index.  Its
\* state is "stale" once the pair it points at has been freed.
HeldCursor(ba, c) ==
    IF c.state = "live"
    THEN [c EXCEPT !.pair = ba[c.bucket + 1][c.pair].key]
    ELSE c

\* the key reference of pair->next for the pair of key reference pair, NULL
\* at the end of its chain
NextOf(ba, pair) ==
    LET b == CHOOSE b \in DOMAIN ba :
                 \E i \in DOMAIN ba[b] : ba[b][i].key = pair
        i == CHOOSE i \in DOMAIN ba[b] : ba[b][i].key = pair
    IN  IF i < Len(ba[b]) THEN ba[b][i + 1].key ELSE NULL

\* pair->value for the pair of key reference pair
ValueOf(ba, pair) ==
    LET b == CHOOSE b \in DOMAIN ba :
                 \E i \in DOMAIN ba[b] : ba[b][i].key = pair
        i == CHOOSE i \in DOMAIN ba[b] : ba[b][i].key = pair
    IN  ba[b][i].value

\* mutant: the loop ends at the end of the chain of the cursor
NextPairStaysInBucket(ba, nb, b, pair) ==
    IF b >= nb THEN NullCursor
    ELSE IF pair = NULL THEN NullCursor
    ELSE [state |-> "live", bucket |-> b, pair |-> pair]

\* the loop of hashTableGetNext from bucket index b and pair reference pair
RECURSIVE NextPair(_, _, _, _)
NextPair(ba, nb, b, pair) ==
    IF b >= nb THEN NullCursor
    ELSE IF pair = NULL
         THEN IF b + 1 < nb
              THEN NextPair(ba, nb, b + 1,
                            IF ba[b + 2] = <<>> THEN NULL ELSE ba[b + 2][1].key)
              ELSE NullCursor
         ELSE [state |-> "live", bucket |-> b, pair |-> pair]

\* what iter->pair->next can read from a freed pair: the reference of any
\* pair or NULL lets the loop run; any other value either stops the program
\* or is handed back as a pair that is none
StaleOutcomes(ba, nb, it, stored) ==
    {FaultCursor, it} \cup {NextPair(ba, nb, it.bucket, p) : p \in stored \cup {NULL}}

\* the pairs a caller collects from first, then next until absent
RECURSIVE VisitFrom(_, _, _)
VisitFrom(ba, nb, it) ==
    IF it.state # "live" THEN <<>>
    ELSE <<ba[it.bucket + 1][it.pair]>>
             \o VisitFrom(ba, nb, hashTableGetNext(ba, nb, it))

FullIteration == VisitFrom(bucketArray, numOfBuckets,
                           hashTableGetFirst(bucketArray, numOfBuckets, TRUE))

(* -------------------------- release callbacks ------------------------- *)

\* a deallocator is NULL or a function of the caller
Deallocators == {"NULL", "free"}

\* one call of a release callback: which one, and the reference it was given
Released(fn, ref) == [fn |-> fn, ref |-> ref]

\* if (keyDeallocator != NULL) keyDeallocator(pair->key);
\* if (valueDeallocator != NULL) valueDeallocator(pair->value);
ReleasePair(kd, vd, pair) ==
    (IF kd # "NULL" THEN <<Released("keyDeallocator", pair.key)>> ELSE <<>>)
        \o (IF vd # "NULL" THEN <<Released("valueDeallocator", pair.value)>>
            ELSE <<>>)

\* the callbacks of a loop that frees every pair of pairs, in its order
RECURSIVE ReleasePairs(_, _, _)
ReleasePairs(kd, vd, pairs) ==
    IF pairs = <<>> THEN <<>>
    ELSE ReleasePair(kd, vd, Head(pairs)) \o ReleasePairs(kd, vd, Tail(pairs))

\* mutant: the stored references are released whatever the new ones are
ReleaseReplacedAlways(kd, vd, pair, key, value) ==
    (IF kd # "NULL" THEN <<Released("keyDeallocator", pair.key)>> ELSE <<>>)
        \o (IF vd # "NULL" THEN <<Released("valueDeallocator", pair.value)>>
            ELSE <<>>)

\* the callbacks of a put that found pair: each of the two references is
\* released when the new one is another reference
ReleaseReplaced(kd, vd, pair, key, value) ==
    (IF pair.key # key /\ kd # "NULL"
     THEN <<Released("keyDeallocator", pair.key)>> ELSE <<>>)
        \o (IF pair.value # value /\ vd # "NULL"
            THEN <<Released("valueDeallocator", pair.value)>> ELSE <<>>)

(* ------------------------------- actions ------------------------------ *)

\* ret: the last call made through the operation table, the key and value
\* references it was given (or handed back) and the int it returned (0 where
\* it returns none); op is "abort" when the call ended in a failed assert
Call(op, key, value, val) == [op |-> op, key |-> key, value |-> value, val |-> val]

\* HashTableCreate(numOfBuckets) with numOfBuckets > 0
Init ==
    /\ numOfBuckets \in 1..MaxBuckets
    /\ bucketArray = EmptyArray(numOfBuckets)
    /\ numOfElements = 0
    /\ keycmp = "pointercmp"
    /\ valuecmp = "pointercmp"
    /\ hashFunction = "pointerHashFunction"
    /\ keyDeallocator = "NULL"
    /\ valueDeallocator = "NULL"
    /\ deallocated = <<>>
    /\ iter = NullCursor
    /\ elementCount = 0
    /\ idealNumOfBuckets = 0
    /\ ret = Call("create", NULL, NULL, 0)

\* the cursor of the caller after a call that replaced the key of the pair
\* oldKey by key: a pair is named by its key reference
Repointed(oldKey, key) ==
    IF iter.state = "live" /\ iter.pair = oldKey
    THEN [iter EXCEPT !.pair = key] ELSE iter

\* mutant: freeing a pair leaves every cursor as it is
InvalidatedNever(freed) == iter

\* the cursor of the caller after a call that freed the pairs of the keys in
\* freed: a cursor on one of them points at freed memory
Invalidated(freed) ==
    IF iter.state = "live" /\ iter.pair \in freed
    THEN [iter EXCEPT !.state = "stale"] ELSE iter

\* mutant: the element is counted before its pair is allocated
HashTablePutStoreCountsFirst(key, value, pairAlloc, arrayAlloc) ==
    LET hashValue == HashValue(hashFunction, key, numOfBuckets)
        chain == bucketArray[hashValue + 1]
        i == ScanChain(chain, keycmp, key, 1)
    IN  /\ IF i # 0
           THEN /\ bucketArray' =
                      [bucketArray EXCEPT ![hashValue + 1] =
                          [chain EXCEPT ![i] = [key |-> key, value |-> value]]]
                /\ UNCHANGED <<numOfBuckets, numOfElements>>
                /\ deallocated' = ReleaseReplaced(keyDeallocator,
                                      valueDeallocator, chain[i], key, value)
                /\ iter' = Repointed(chain[i].key, key)
                /\ ret' = Call("put", key, value, 0)
           ELSE IF ~pairAlloc
           THEN /\ UNCHANGED <<bucketArray, numOfBuckets, iter>>
                /\ numOfElements' = numOfElements + 1
                /\ deallocated' = <<>>
                /\ ret' = Call("put", key, value, -1)
           ELSE LET linked == [bucketArray EXCEPT ![hashValue + 1] =
                                  <<[key |-> key, value |-> value]>> \o chain]
                    ne == numOfElements + 1
                    rehashed ==
                        IF /\ UpperRehashThreshold > IdealRatio
                           /\ ne > UpperRehashThreshold * numOfBuckets
                        THEN HashTableRehash(linked, numOfBuckets, ne,
                                             hashFunction, 0, arrayAlloc)
                        ELSE [bucketArray |-> linked,
                              numOfBuckets |-> numOfBuckets]
                IN  /\ bucketArray' = rehashed.bucketArray
                    /\ numOfBuckets' = rehashed.numOfBuckets
                    /\ numOfElements' = ne
                    /\ deallocated' = <<>>
                    /\ UNCHANGED iter
                    /\ ret' = Call("put", key, value, 0)
        /\ UNCHANGED <<strategyVars, sizingVars>>

\* mutant: the upper threshold is looked at after a replacement too
HashTablePutStoreRehashesAlways(key, value, pairAlloc, arrayAlloc) ==
    LET hashValue == HashValue(hashFunction, key, numOfBuckets)
        chain == bucketArray[hashValue + 1]
        i == ScanChain(chain, keycmp, key, 1)
    IN  /\ IF i = 0 /\ ~pairAlloc
           THEN /\ UNCHANGED <<bucketArray, numOfBuckets, numOfElements, iter>>
                /\ deallocated' = <<>>
                /\ ret' = Call("put", key, value, -1)
           ELSE LET linked == [bucketArray EXCEPT ![hashValue + 1] =
                                  IF i # 0
                                  THEN [chain EXCEPT ![i] =
                                           [key |-> key, value |-> value]]
                                  ELSE <<[key |-> key, value |-> value]>>
                                           \o chain]
                    ne == IF i # 0 THEN numOfElements ELSE numOfElements + 1
                    rehashed ==
                        IF /\ UpperRehashThreshold > IdealRatio
                           /\ ne > UpperRehashThreshold * numOfBuckets
                        THEN HashTableRehash(linked, numOfBuckets, ne,
                                             hashFunction, 0, arrayAlloc)
                        ELSE [bucketArray |-> linked,
                              numOfBuckets |-> numOfBuckets]
                IN  /\ bucketArray' = rehashed.bucketArray
                    /\ numOfBuckets' = rehashed.numOfBuckets
                    /\ numOfElements' = ne
                    /\ deallocated' =
                           IF i # 0
                           THEN ReleaseReplaced(keyDeallocator, valueDeallocator,
                                                chain[i], key, value)
                           ELSE <<>>
                    /\ iter' = IF i # 0 THEN Repointed(chain[i].key, key)
                               ELSE iter
                    /\ ret' = Call("put", key, value, 0)
        /\ UNCHANGED <<strategyVars, sizingVars>>

\* HashTablePut from its first statement after the asserts.  pairAlloc,
\* arrayAlloc: whether malloc of the new pair, and of the new bucket array of
\* an automatic rehash, succeed
HashTablePutStore(key, value, pairAlloc, arrayAlloc) ==
    LET hashValue == HashValue(hashFunction, key, numOfBuckets)
        chain == bucketArray[hashValue + 1]
        i == ScanChain(chain, keycmp, key, 1)
    IN  /\ IF i # 0
           THEN /\ bucketArray' =
                      [bucketArray EXCEPT ![hashValue + 1] =
                          [chain EXCEPT ![i] = [key |-> key, value |-> value]]]
                /\ UNCHANGED <<numOfBuckets, numOfElements>>
                /\ deallocated' = ReleaseReplaced(keyDeallocator,
                                      valueDeallocator, chain[i], key, value)
                /\ iter' = Repointed(chain[i].key, key)
                /\ ret' = Call("put", key, value, 0)
           ELSE IF ~pairAlloc
           THEN /\ UNCHANGED <<bucketArray, numOfBuckets, numOfElements, iter>>
                /\ deallocated' = <<>>
                /\ ret' = Call("put", key, value, -1)
           ELSE LET linked == [bucketArray EXCEPT ![hashValue + 1] =
                                  <<[key |-> key, value |-> value]>> \o chain]
                    ne == numOfElements + 1
                    rehashed ==
                        IF /\ UpperRehashThreshold > IdealRatio
                           /\ ne > UpperRehashThreshold * numOfBuckets
                        THEN HashTableRehash(linked, numOfBuckets, ne,
                                             hashFunction, 0, arrayAlloc)
                        ELSE [bucketArray |-> linked,
                              numOfBuckets |-> numOfBuckets]
                IN  /\ bucketArray' = rehashed.bucketArray
                    /\ numOfBuckets' = rehashed.numOfBuckets
                    /\ numOfElements' = ne
                    /\ deallocated' = <<>>
                    /\ UNCHANGED iter
                    /\ ret' = Call("put", key, value, 0)
        /\ UNCHANGED <<strategyVars, sizingVars>>

\* mutant: a null reference is answered with the error value
HashTablePutReturnsError(key, value, pairAlloc, arrayAlloc) ==
    IF key = NULL \/ value = NULL
    THEN /\ ret' = Call("put", key, value, -1)
         /\ deallocated' = <<>>
         /\ UNCHANGED <<bucketArray, numOfBuckets, numOfElements, iter,
                        strategyVars, sizingVars>>
    ELSE HashTablePutStore(key, value, pairAlloc, arrayAlloc)

\* assert(key != NULL); assert(value != NULL); a failed assert ends the
\* program before the table is read
HashTablePut(key, value, pairAlloc, arrayAlloc) ==
    IF key = NULL \/ value = NULL
    THEN /\ ret' = Call("abort", key, value, 0)
         /\ deallocated' = <<>>
         /\ UNCHANGED <<bucketArray, numOfBuckets, numOfElements, iter,
                        strategyVars, sizingVars>>
    ELSE HashTablePutStore(key, value, pairAlloc, arrayAlloc)

HashTableRemove(key, arrayAlloc) ==
    LET hashValue == HashValue(hashFunction, key, numOfBuckets)
        chain == bucketArray[hashValue + 1]
        i == ScanChain(chain, keycmp, key, 1)
    IN  /\ IF i # 0
           THEN LET unlinked == [bucketArray EXCEPT ![hashValue + 1] =
                                    RemoveAt(chain, i)]
                    ne == numOfElements - 1
                    rehashed ==
                        IF /\ LowerRehashThreshold > 0
                           /\ ne < LowerRehashThreshold * numOfBuckets
                        THEN HashTableRehash(unlinked, numOfBuckets, ne,
                                             hashFunction, 0, arrayAlloc)
                        ELSE [bucketArray |-> unlinked,
                              numOfBuckets |-> numOfBuckets]
                IN  /\ bucketArray' = rehashed.bucketArray
                    /\ numOfBuckets' = rehashed.numOfBuckets
                    /\ numOfElements' = ne
                    /\ deallocated' = ReleasePair(keyDeallocator,
                                          valueDeallocator, chain[i])
                    /\ iter' = Invalidated({chain[i].key})
           ELSE /\ UNCHANGED <<bucketArray, numOfBuckets, numOfElements, iter>>
                /\ deallocated' = <<>>
        /\ ret' = Call("remove", key, NULL, 0)
        /\ UNCHANGED <<strategyVars, sizingVars>>

\* the key references of the pairs of the table
StoredKeys == {PairsFrom(bucketArray, numOfBuckets, 0)[i].key :
                   i \in DOMAIN PairsFrom(bucketArray, numOfBuckets, 0)}

\* mutant: the bucket array is given up and none is put in its place
HashTableRemoveAllFreesArray(arrayAlloc) ==
    /\ bucketArray' = EmptyArray(0)
    /\ numOfBuckets' = 0
    /\ numOfElements' = 0
    /\ deallocated' = ReleasePairs(keyDeallocator, valueDeallocator,
                                   PairsFrom(bucketArray, numOfBuckets, 0))
    /\ iter' = Invalidated(StoredKeys)
    /\ ret' = Call("removeAll", NULL, NULL, 0)
    /\ UNCHANGED <<strategyVars, sizingVars>>

\* mutant: the chains are cleared and the bucket array is left as it is
HashTableRemoveAllNoRehash(arrayAlloc) ==
    /\ bucketArray' = EmptyArray(numOfBuckets)
    /\ numOfElements' = 0
    /\ deallocated' = ReleasePairs(keyDeallocator, valueDeallocator,
                                   PairsFrom(bucketArray, numOfBuckets, 0))
    /\ iter' = Invalidated(StoredKeys)
    /\ ret' = Call("removeAll", NULL, NULL, 0)
    /\ UNCHANGED <<numOfBuckets, strategyVars, sizingVars>>

HashTableRemoveAll(arrayAlloc) ==
    LET rehashed == HashTableRehash(EmptyArray(numOfBuckets), numOfBuckets, 0,
                                    hashFunction, ClearedNumOfBuckets,
                                    arrayAlloc)
    IN  /\ bucketArray' = rehashed.bucketArray
        /\ numOfBuckets' = rehashed.numOfBuckets
        /\ numOfElements' = 0
        /\ deallocated' = ReleasePairs(keyDeallocator, valueDeallocator,
                                       PairsFrom(bucketArray, numOfBuckets, 0))
        /\ iter' = Invalidated(StoredKeys)
        /\ ret' = Call("removeAll", NULL, NULL, 0)
        /\ UNCHANGED <<strategyVars, sizingVars>>

\* hashTableDestroy: every pair, the bucket array and the table are freed and
\* no call follows; the model is left with a table that holds nothing
HashTableDestroy ==
    /\ bucketArray' = EmptyArray(numOfBuckets)
    /\ numOfElements' = 0
    /\ deallocated' = ReleasePairs(keyDeallocator, valueDeallocator,
                                   PairsFrom(bucketArray, numOfBuckets, 0))
    /\ iter' = Invalidated(StoredKeys)
    /\ ret' = Call("release", NULL, NULL, 0)
    /\ UNCHANGED <<numOfBuckets, strategyVars, sizingVars>>

\* hashTableRehash(ht, buckets) of the operation table, buckets >= 0
hashTableRehash(buckets, arrayAlloc) ==
    LET rehashed == HashTableRehash(bucketArray, numOfBuckets, numOfElements,
                                    hashFunction, buckets, arrayAlloc)
    IN  /\ buckets >= 0
        /\ bucketArray' = rehashed.bucketArray
        /\ numOfBuckets' = rehashed.numOfBuckets
        /\ deallocated' = <<>>
        /\ ret' = Call("rehash", NULL, NULL, 0)
        /\ UNCHANGED <<numOfElements, iter, strategyVars, sizingVars>>

HashTableSetKeyComparisonFunction(f) ==
    /\ keycmp' = f
    /\ deallocated' = <<>>
    /\ ret' = Call("setKeyCmpFunction", NULL, NULL, 0)
    /\ UNCHANGED <<bucketArray, numOfBuckets, numOfElements, valuecmp,
                   hashFunction, keyDeallocator, valueDeallocator, iter,
                   sizingVars>>

HashTableSetValueComparisonFunction(f) ==
    /\ valuecmp' = f
    /\ deallocated' = <<>>
    /\ ret' = Call("setValueCmpFunction", NULL, NULL, 0)
    /\ UNCHANGED <<bucketArray, numOfBuckets, numOfElements, keycmp,
                   hashFunction, keyDeallocator, valueDeallocator, iter,
                   sizingVars>>

HashTableSetHashFunction(f) ==
    /\ hashFunction' = f
    /\ deallocated' = <<>>
    /\ ret' = Call("setHashFunction", NULL, NULL, 0)
    /\ UNCHANGED <<bucketArray, numOfBuckets, numOfElements, keycmp,
                   valuecmp, keyDeallocator, valueDeallocator, iter,
                   sizingVars>>

HashTableSetDeallocationFunctions(kd, vd) ==
    /\ keyDeallocator' = kd
    /\ valueDeallocator' = vd
    /\ deallocated' = <<>>
    /\ ret' = Call("setReleaseFunctions", NULL, NULL, 0)
    /\ UNCHANGED <<bucketArray, numOfBuckets, numOfElements, keycmp,
                   valuecmp, hashFunction, iter, sizingVars>>

\* hashTableContainsKey of the operation table: val is the int it returns
hashTableContainsKey(key) ==
    /\ ret' = Call("containsKey", key, NULL,
                   IF HashTableContainsKey(key) THEN 1 ELSE 0)
    /\ deallocated' = <<>>
    /\ UNCHANGED <<bucketArray, numOfBuckets, numOfElements, iter,
                   strategyVars, sizingVars>>

\* hashTableContainsValue of the operation table: val is the int it returns
hashTableContainsValue(value) ==
    /\ ret' = Call("containsValue", NULL, value, HashTableContainsValue(value))
    /\ deallocated' = <<>>
    /\ UNCHANGED <<bucketArray, numOfBuckets, numOfElements, iter,
                   strategyVars, sizingVars>>

\* mutant: clone hands back the table it was called on
NotSupportedReturnsTable ==
    /\ ret' = Call("clone", NULL, NULL, 1)
    /\ deallocated' = <<>>
    /\ UNCHANGED <<bucketArray, numOfBuckets, numOfElements, iter,
                   strategyVars, sizingVars>>

\* the key and value a cursor call stores through its out parameters: those
\* of the pair of a live cursor
Handed(ba, nb, it) ==
    IF it.state = "live"
    THEN Call("", it.pair, ValueOf(ba, it.pair), 0)
    ELSE Call("", NULL, NULL, 0)

\* hashTableGetFirst: iterAlloc is whether NEW(HashTableIterator) succeeds
getFirst(iterAlloc) ==
    LET it == HeldCursor(bucketArray,
                         hashTableGetFirst(bucketArray, numOfBuckets, iterAlloc))
    IN  /\ iter' = it
        /\ ret' = [Handed(bucketArray, numOfBuckets, it) EXCEPT !.op = "getFirst"]
        /\ deallocated' = <<>>
        /\ UNCHANGED <<bucketArray, numOfBuckets, numOfElements, strategyVars,
                       sizingVars>>

\* hashTableGetNext on the cursor the caller holds
getNext ==
    /\ iter.state \in {"live", "stale"}
    /\ \E it \in IF iter.state = "live"
                  THEN {NextPair(bucketArray, numOfBuckets, iter.bucket,
                                 NextOf(bucketArray, iter.pair))}
                  ELSE StaleOutcomes(bucketArray, numOfBuckets, iter, StoredKeys) :
          /\ iter' = it
          /\ ret' = [Handed(bucketArray, numOfBuckets, it) EXCEPT !.op = "getNext"]
    /\ deallocated' = <<>>
    /\ UNCHANGED <<bucketArray, numOfBuckets, numOfElements, strategyVars,
                   sizingVars>>

\* the clone entry of the operation table: val is the handle it returns
NotSupported ==
    /\ ret' = Call("clone", NULL, NULL, NULL)
    /\ deallocated' = <<>>
    /\ UNCHANGED <<bucketArray, numOfBuckets, numOfElements, iter,
                   strategyVars, sizingVars>>

(* ---------------------------- specifications -------------------------- *)

\* the hash function gives keys that compare equal the same hash
Suitable ==
    \A k1 \in Keys, k2 \in Keys :
        KeyCmp(keycmp, k1, k2) = 0
            => Hash(hashFunction, k1) = Hash(hashFunction, k2)

PutStep == \E k \in Keys, v \in Values, pa \in BOOLEAN, aa \in BOOLEAN :
               HashTablePut(k, v, pa, aa)

RemoveStep == \E k \in Keys, aa \in BOOLEAN : HashTableRemove(k, aa)

RemoveAllStep == \E aa \in BOOLEAN : HashTableRemoveAll(aa)

RehashStep == \E n \in 0..MaxBuckets, aa \in BOOLEAN : hashTableRehash(n, aa)

SetKeyCmpStep == \E f \in KeyCmpFunctions : HashTableSetKeyComparisonFunction(f)

SetHashStep == \E f \in HashFunctions : HashTableSetHashFunction(f)

\* a client that chooses its strategies before it stores anything and
\* stores only under a hash function that suits its comparison function
Next ==
    \/ numOfElements = 0 /\ SetKeyCmpStep
    \/ numOfElements = 0 /\ SetHashStep
    \/ Suitable /\ PutStep
    \/ RemoveStep
    \/ RemoveAllStep
    \/ RehashStep

Spec == Init /\ [][Next]_vars

\* the same client, except that it calls the strategy setters at any time
NextSetters ==
    \/ SetKeyCmpStep
    \/ SetHashStep
    \/ Suitable /\ numOfElements < MaxElements /\ PutStep
    \/ RemoveStep
    \/ RemoveAllStep
    \/ RehashStep

SpecSetters == Init /\ [][NextSetters]_vars

\* a client that fills a table of one bucket with fresh keys, in the order
\* of their addresses, to drive it across the upper threshold
InitGrow ==
    /\ numOfBuckets = 1
    /\ bucketArray = EmptyArray(numOfBuckets)
    /\ numOfElements = 0
    /\ keycmp = "pointercmp"
    /\ valuecmp = "pointercmp"
    /\ hashFunction = "pointerHashFunction"
    /\ keyDeallocator = "NULL"
    /\ valueDeallocator = "NULL"
    /\ deallocated = <<>>
    /\ iter = NullCursor
    /\ elementCount = 0
    /\ idealNumOfBuckets = 0
    /\ ret = Call("create", NULL, NULL, 0)

FillStep == \E pa \in BOOLEAN, aa \in BOOLEAN :
                /\ numOfElements < MaxGrow
                /\ HashTablePut(GrowKeyRef(numOfElements + 1), 1, pa, aa)

\* the client of SpecGrow takes the last key of its full table out again
DrainStep == \E aa \in BOOLEAN :
                 /\ numOfElements = MaxGrow
                 /\ HashTableRemove(GrowKeyRef(numOfElements), aa)

\* the bucket counts the client of SpecGrow asks rehash for: 1 at any time,
\* the ideal count (0) once its table is full
GrowTargets == 0..1

GrowRehashStep ==
    \E n \in GrowTargets, aa \in BOOLEAN :
        /\ n = 0 => numOfElements = MaxGrow
        /\ hashTableRehash(n, aa)

NextGrow ==
    \/ FillStep
    \/ DrainStep
    \/ RemoveAllStep
    \/ GrowRehashStep

SpecGrow == InitGrow /\ [][NextGrow]_vars

SetDeallocationStep ==
    \E kd \in Deallocators, vd \in Deallocators :
        HashTableSetDeallocationFunctions(kd, vd)

\* no call follows the release of the table or a failed assert
Usable == ret.op \notin {"release", "abort"}

\* the client of SpecOwning asks rehash for the ideal bucket count only
IdealRehashStep == \E aa \in BOOLEAN : hashTableRehash(0, aa)

\* the puts of the client of SpecOwning: its table stays far below the upper
\* threshold, so no put of it allocates a bucket array
OwningPutStep == \E k \in Keys, v \in Values, pa \in BOOLEAN :
                     HashTablePut(k, v, pa, TRUE)

\* HashTableCreate(2)
InitOwning == Init /\ numOfBuckets = 2

\* a client with release callbacks: it chooses them, like the other
\* strategies, before it stores anything, and it may release the table
NextOwning ==
    \/ Usable /\ numOfElements = 0 /\ SetKeyCmpStep
    \/ Usable /\ numOfElements = 0 /\ SetHashStep
    \/ Usable /\ numOfElements = 0 /\ SetDeallocationStep
    \/ Usable /\ Suitable /\ OwningPutStep
    \/ Usable /\ RemoveStep
    \/ Usable /\ RemoveAllStep
    \/ Usable /\ IdealRehashStep
    \/ Usable /\ HashTableDestroy

SpecOwning == InitOwning /\ [][NextOwning]_vars

\* the number of the next put of the client of SpecOrder: one more than the
\* largest number it has in the table
Stamp ==
    LET pairs == PairsFrom(bucketArray, numOfBuckets, 0)
        stored == {pairs[i].value : i \in DOMAIN pairs}
    IN  IF stored = {} THEN 1
        ELSE 1 + CHOOSE v \in stored : \A w \in stored : w <= v

\* a client that puts keys the table does not hold and passes as value the
\* number of the put, so that of two pairs the one put later has the larger
\* value
OrderPutStep ==
    \E k \in Keys, pa \in BOOLEAN :
        /\ HashTableGet(k) = NULL
        /\ Stamp <= MaxStamp
        /\ HashTablePut(k, Stamp, pa, TRUE)

NextOrder ==
    \/ OrderPutStep
    \/ RemoveStep
    \/ RehashStep

SpecOrder == Init /\ [][NextOrder]_vars

\* a client whose every rehash asks for the bucket count the table has: by
\* that count, or by 0 when the ideal count is that count
SameSizeRehashStep ==
    \E n \in {0, numOfBuckets}, aa \in BOOLEAN :
        /\ n = 0 => calculateIdealNumOfBuckets(numOfElements) = numOfBuckets
        /\ hashTableRehash(n, aa)

NextSameSize ==
    \/ Suitable /\ PutStep
    \/ RemoveStep
    \/ RemoveAllStep
    \/ SameSizeRehashStep

SpecSameSize == Init /\ [][NextSameSize]_vars

\* a client that also passes null references to put and asks for a clone
FacadePutStep ==
    \E k \in Keys \cup {NULL}, v \in Values \cup {NULL}, pa \in BOOLEAN :
        HashTablePut(k, v, pa, TRUE)

NextFacade ==
    \/ Usable /\ FacadePutStep
    \/ Usable /\ RemoveStep
    \/ Usable /\ RemoveAllStep
    \/ Usable /\ NotSupported

SpecFacade == Init /\ [][NextFacade]_vars

\* A caller that iterates with a cursor while it also changes the table.  The
\* strategies stay the defaults, so a key reference names one pair.
CursorPutStep == \E k \in Keys, aa \in BOOLEAN : HashTablePut(k, 1, TRUE, aa)

GetFirstStep == \E ia \in BOOLEAN : getFirst(ia)

\* the caller can go on: the table is not destroyed and no call has stopped
\* the program
Running == Usable /\ iter.state # "fault"

NextCursor ==
    \/ Running /\ CursorPutStep
    \/ Running /\ RemoveStep
    \/ Running /\ RemoveAllStep
    \/ Running /\ RehashStep
    \/ Running /\ GetFirstStep
    \/ Running /\ getNext

SpecCursor == Init /\ [][NextCursor]_vars

\* the caller of SpecIterate holds no cursor
Idle == iter.state = "null"

IteratePutStep == \E k \in Keys : HashTablePut(k, 1, TRUE, TRUE)

\* A caller that keeps to the contract of the cursor: it changes the table
\* only while it holds no cursor, and once first has handed it one it runs
\* the loop  for (i = getFirst(); i; i = getNext(i))  to its end.
NextIterate ==
    \/ Idle /\ IteratePutStep
    \/ Idle /\ RemoveStep
    \/ Idle /\ RehashStep
    \/ Idle /\ GetFirstStep
    \/ iter.state = "live" /\ getNext

SpecIterate == Init /\ [][NextIterate]_vars /\ WF_vars(getNext)

\* the value references the client of SpecQuery stores: they point at two
\* different texts; it asks for any reference of Keys, among them one that
\* points at a text equal to a stored one
TextRefs == {KeyRef(1), KeyRef(2)}

QueryPutStep == \E k \in Keys, v \in TextRefs : HashTablePut(k, v, TRUE, TRUE)

SetValueCmpStep ==
    \E f \in KeyCmpFunctions : HashTableSetValueComparisonFunction(f)

ContainsKeyStep == \E k \in Keys : hashTableContainsKey(k)

ContainsValueStep == \E v \in Keys : hashTableContainsValue(v)

\* a client that stores references to texts as values and asks the table
\* what it holds
NextQuery ==
    \/ numOfElements = 0 /\ SetKeyCmpStep
    \/ numOfElements = 0 /\ SetHashStep
    \/ SetValueCmpStep
    \/ Suitable /\ QueryPutStep
    \/ RemoveStep
    \/ ContainsKeyStep
    \/ ContainsValueStep

SpecQuery == InitOwning /\ [][NextQuery]_vars

\* the bucket counts the client of SpecLoad asks rehash for
LoadTargets == 0..2

LoadStep == \E aa \in BOOLEAN :
                /\ numOfElements < MaxLoad
                /\ HashTablePut(GrowKeyRef(numOfElements + 1), 1, TRUE, aa)

\* the client of SpecLoad puts the key it put first once more
ReloadStep == \E v \in Values, aa \in BOOLEAN :
                  /\ numOfElements > 0
                  /\ HashTablePut(GrowKeyRef(1), v, TRUE, aa)

LoadRehashStep == \E n \in LoadTargets, aa \in BOOLEAN : hashTableRehash(n, aa)

\* the client of SpecLoad has not asked for its rehash yet
Loading == ret.op # "rehash"

\* a client that loads a table of one bucket with fresh keys, now and then
\* puts its first key again and, at some load, ends with a rehash
NextLoad ==
    \/ Loading /\ LoadStep
    \/ Loading /\ ReloadStep
    \/ Loading /\ LoadRehashStep

SpecLoad == InitGrow /\ [][NextLoad]_vars

\* the sizing policy on its own: a table of elementCount elements asks for
\* its ideal number of buckets
InitSizing ==
    /\ numOfBuckets = 1
    /\ bucketArray = EmptyArray(numOfBuckets)
    /\ numOfElements = 0
    /\ keycmp = "pointercmp"
    /\ valuecmp = "pointercmp"
    /\ hashFunction = "pointerHashFunction"
    /\ keyDeallocator = "NULL"
    /\ valueDeallocator = "NULL"
    /\ deallocated = <<>>
    /\ iter = NullCursor
    /\ elementCount \in 0..MaxCount
    /\ idealNumOfBuckets = 0
    /\ ret = Call("create", NULL, NULL, 0)

CalculateStep ==
    /\ idealNumOfBuckets' = calculateIdealNumOfBuckets(elementCount)
    /\ UNCHANGED <<bucketArray, numOfBuckets, numOfElements, strategyVars,
                   deallocated, iter, elementCount, ret>>

NextSizing == CalculateStep

SpecSizing == InitSizing /\ [][NextSizing]_vars

(* ------------------------- what the table holds ----------------------- *)

\* every pair linked in a chain, buckets ascending, each chain from its head
StoredPairs == PairsFrom(bucketArray, numOfBuckets, 0)

\* some live entry has a key that compares equal to key
KeyStored(key) ==
    \E i \in DOMAIN StoredPairs : KeyCmp(keycmp, key, StoredPairs[i].key) = 0

\* HashTableGet on the table the step leaves
GetAfter(key) == GetIn(bucketArray', numOfBuckets', keycmp', hashFunction', key)

Count(seq, x) == Cardinality({i \in DOMAIN seq : seq[i] = x})

(* -------------------------------- claims ------------------------------ *)

\* C1: get(k) returns the value of the most recent put whose key compares
\* equal to k, as long as that key was not removed since.  Step by step: a
\* successful put(k2, v) makes get(k) return v for every k equal to k2;
\* remove(k2) and removeAll make get(k) absent for the keys they remove; and
\* every call leaves get(k) alone for every other k (a failed put, a rehash
\* and a remove or put of another key change no answer).
GetReturnsLastPut ==
    [][\A k \in Keys :
          GetAfter(k) =
              IF ret'.op = "put" /\ ret'.val = 0
                     /\ KeyCmp(keycmp, k, ret'.key) = 0
              THEN ret'.value
              ELSE IF \/ ret'.op = "removeAll"
                      \/ ret'.op = "remove" /\ KeyCmp(keycmp, k, ret'.key) = 0
              THEN NULL
              ELSE HashTableGet(k)
      ]_vars

\* C1 witness: after a put, a key reads back the second value while another
\* key still reads back the first
C1Witness ==
    /\ ret.op = "put" /\ ret.val = 0
    /\ \E k1 \in Keys, k2 \in Keys :
          /\ HashTableGet(k1) = 2
          /\ HashTableGet(k2) = 1
          /\ HashValue(hashFunction, k1, numOfBuckets)
                 = HashValue(hashFunction, k2, numOfBuckets)

\* C2: a successful put on a key already in the table replaces the value and
\* leaves the size unchanged; on a key not in the table it adds exactly 1.
PutReplacesOrAddsOne ==
    [][(ret'.op = "put" /\ ret'.val = 0) =>
          /\ GetAfter(ret'.key) = ret'.value
          /\ numOfElements' =
                 IF KeyStored(ret'.key) THEN numOfElements
                 ELSE numOfElements + 1
      ]_vars

\* C2 witness: a successful put has replaced the value of a pair that has
\* another pair in front of it in its chain, so it added none
C2Witness ==
    /\ ret.op = "put" /\ ret.val = 0
    /\ numOfElements = NumKeys
    /\ \E b \in DOMAIN bucketArray :
          /\ Len(bucketArray[b]) > 1
          /\ bucketArray[b][2] = [key |-> ret.key, value |-> ret.value]

\* C3: remove on a key in the table takes exactly 1 off the size and get of
\* that key is absent from then on, until a put of an equal key; remove on a
\* key not in the table leaves the size and reports nothing.
RemoveDropsKey ==
    [][/\ ret'.op = "remove" =>
             /\ GetAfter(ret'.key) = NULL
             /\ numOfElements' =
                    IF KeyStored(ret'.key) THEN numOfElements - 1
                    ELSE numOfElements
             /\ ret'.val = 0
       /\ \A k \in Keys :
             (HashTableGet(k) = NULL /\ GetAfter(k) # NULL) =>
                 /\ ret'.op = "put"
                 /\ KeyCmp(keycmp, k, ret'.key) = 0
      ]_vars

\* C3 witness: a remove has left two keys in the table and its own absent
C3Witness ==
    /\ ret.op = "remove"
    /\ numOfElements = 2
    /\ HashTableGet(ret.key) = NULL
    /\ \A k \in Keys : k # ret.key => HashTableGet(k) # NULL

RehashKeepsPairs ==
    [][ret'.op = "rehash" =>
          /\ numOfElements' = numOfElements
          /\ Len(StoredPairs') = Len(StoredPairs)
          /\ \A i \in DOMAIN StoredPairs :
                 Count(StoredPairs', StoredPairs[i])
                     = Count(StoredPairs, StoredPairs[i])
          /\ \A k \in Keys : GetAfter(k) = HashTableGet(k)
      ]_vars

\* C5 witness: a rehash has spread a full table over two of three buckets
C5Witness ==
    /\ ret.op = "rehash"
    /\ numOfBuckets = 3
    /\ numOfElements = NumKeys
    /\ Len(bucketArray[2]) > 1 /\ bucketArray[3] # <<>>

\* every pair of the table (ba, nb) is in the bucket of its hash under hf
Placed(ba, nb, hf) ==
    \A b \in 0..(nb - 1) :
        \A i \in DOMAIN ba[b + 1] : HashValue(hf, ba[b + 1][i].key, nb) = b

\* C6 as claimed: in every reachable state, setHashFunction calls included,
\* each entry is in the bucket hash(key) mod numOfBuckets of the current hash
\* function and bucket count.
EntriesInHashBucket == Placed(bucketArray, numOfBuckets, hashFunction)

\* C6 amended: the placement holds initially, every call keeps it except a
\* setHashFunction that changes the hash function of a table that holds
\* entries, and a rehash that changes the bucket count re-establishes it.
PlacementKeptUnlessHashReplaced ==
    [][/\ (/\ EntriesInHashBucket
           /\ (hashFunction' # hashFunction => numOfElements = 0))
              => EntriesInHashBucket'
       /\ numOfBuckets' # numOfBuckets => EntriesInHashBucket'
      ]_vars

\* C6 witness: a rehash has put a table whose entries were left in the
\* buckets of a replaced hash function back in order
C6Witness ==
    /\ ret.op = "rehash"
    /\ hashFunction = "stringHashFunction"
    /\ numOfElements = 2
    /\ numOfBuckets = 2
    /\ bucketArray[1] # <<>> /\ bucketArray[2] # <<>>
    /\ EntriesInHashBucket

\* C7 as claimed: in every reachable state, setKeyComparison and
\* setHashFunction calls included, no two live entries have keys that
\* compare equal under the current key-comparison function.
NoEqualKeys ==
    \A i \in DOMAIN StoredPairs, j \in DOMAIN StoredPairs :
        i # j => KeyCmp(keycmp, StoredPairs[i].key, StoredPairs[j].key) # 0

\* C7 amended: the uniqueness holds initially and every call keeps it,
\* except a setKeyComparison that changes the comparison function of a table
\* that holds entries, and a put made while an entry is out of the bucket of
\* its hash or while the hash function separates keys that compare equal.
UniquenessKeptUnlessStrategyReplaced ==
    [][(/\ NoEqualKeys
        /\ (keycmp' # keycmp => numOfElements = 0)
        /\ (ret'.op = "put" => EntriesInHashBucket /\ Suitable))
           => NoEqualKeys'
      ]_vars

\* C7 witness: under the text comparison a put of the second reference to a
\* stored text has replaced the stored key, not added a pair
C7Witness ==
    /\ ret.op = "put" /\ ret.val = 0
    /\ keycmp = "strcmp" /\ hashFunction = "stringHashFunction"
    /\ numOfElements = 2
    /\ \E i \in DOMAIN StoredPairs : StoredPairs[i].key = KeyRef(3)
    /\ HashTableGet(KeyRef(1)) = HashTableGet(KeyRef(3))
    /\ NoEqualKeys
    /\ EntriesInHashBucket

\* C8: the element count size() reports is the number of pairs linked in
\* all chains, and isEmpty() holds exactly when that number is 0.
SizeCountsLinkedPairs ==
    /\ HashTableSize = Len(StoredPairs)
    /\ HashTableIsEmpty <=> Len(StoredPairs) = 0

\* C8 witness: a remove has left a chain of two pairs and nothing else
C8Witness ==
    /\ ret.op = "remove"
    /\ HashTableSize = 2
    /\ \E b \in DOMAIN bucketArray : Len(bucketArray[b]) = 2

\* first() on the table the step leaves, its cursor allocated
FirstAfter == hashTableGetFirst(bucketArray', numOfBuckets', TRUE)

\* C9 as claimed: removeAll() on a populated table leaves size() 0, makes
\* first() return absent and sets bucketCount() to 5.
RemoveAllClearsAndResets ==
    [][(numOfElements > 0 /\ ret'.op = "removeAll") =>
          /\ numOfElements' = 0
          /\ FirstAfter.state = "null"
          /\ numOfBuckets' = ClearedNumOfBuckets
      ]_vars

\* C9 amended: removeAll() on a populated table leaves size() 0 and makes
\* first() return absent; bucketCount() becomes 5 when the new bucket array
\* is allocated and is left as it was when that allocation fails.
RemoveAllClearsAndResetsIfAllocated ==
    [][(numOfElements > 0 /\ ret'.op = "removeAll") =>
          /\ numOfElements' = 0
          /\ FirstAfter.state = "null"
          /\ \A aa \in BOOLEAN :
                 HashTableRemoveAll(aa) =>
                     numOfBuckets' =
                         IF aa THEN ClearedNumOfBuckets ELSE numOfBuckets
      ]_vars

\* C9 witness: a removeAll has left an empty table of 5 buckets
C9Witness ==
    /\ ret.op = "removeAll"
    /\ numOfElements = 0
    /\ numOfBuckets = ClearedNumOfBuckets
    /\ FullIteration = <<>>

\* the put of the step took the table over the upper threshold
OverUpperThreshold ==
    /\ UpperRehashThreshold > IdealRatio
    /\ numOfElements' > UpperRehashThreshold * numOfBuckets

\* every key get found before the step is found with the same value after
AllStillRetrievable ==
    \A k \in GrowKeys :
        HashTableGet(k) # NULL => GetAfter(k) = HashTableGet(k)

\* C10 as claimed: after a successful put of a new key, the bucket count
\* becomes a probable prime >= floor(size / idealRatio), with every key still
\* retrievable, exactly when size / bucketCount exceeds the upper threshold,
\* and is unchanged otherwise.
PutRehashesPastThreshold ==
    [][(ret'.op = "put" /\ ret'.val = 0
            /\ numOfElements' = numOfElements + 1) =>
          IF OverUpperThreshold
          THEN /\ isProbablePrime(numOfBuckets')
               /\ numOfBuckets' >= numOfElements' \div IdealRatio
               /\ AllStillRetrievable
          ELSE numOfBuckets' = numOfBuckets
      ]_vars

\* C10 amended: as claimed when the new bucket array is allocated; when that
\* allocation fails the bucket count is unchanged, the put still succeeds
\* and every key is still retrievable.
PutRehashesPastThresholdIfAllocated ==
    [][(ret'.op = "put" /\ ret'.val = 0
            /\ numOfElements' = numOfElements + 1) =>
          \A pa \in BOOLEAN, aa \in BOOLEAN :
              HashTablePut(ret'.key, ret'.value, pa, aa) =>
                  IF OverUpperThreshold /\ aa
                  THEN /\ isProbablePrime(numOfBuckets')
                       /\ numOfBuckets' >= numOfElements' \div IdealRatio
                       /\ numOfBuckets' # numOfBuckets
                       /\ AllStillRetrievable
                  ELSE /\ numOfBuckets' = numOfBuckets
                       /\ AllStillRetrievable
      ]_vars

\* C10 witness: the 16th put into one bucket has spread the table over 5
C10Witness ==
    /\ ret.op = "put" /\ ret.val = 0
    /\ ret.key = GrowKeyRef(16)
    /\ numOfElements = 16
    /\ numOfBuckets = 5
    /\ \A k \in GrowKeys : k <= GrowKeyRef(16) => HashTableGet(k) = 1

\* the odd integers the probable-prime test divides by
TrialDivisors == {d \in 3..49 : d % 2 = 1}

\* C11: for every element count >= 0 the ideal bucket count is odd, at least
\* 5, and divisible by no odd integer of 3..49 other than itself.
IdealCountIsOddProbablePrime ==
    idealNumOfBuckets # 0 =>
        /\ idealNumOfBuckets = calculateIdealNumOfBuckets(elementCount)
        /\ idealNumOfBuckets % 2 = 1
        /\ idealNumOfBuckets >= 5
        /\ \A d \in TrialDivisors :
               idealNumOfBuckets % d = 0 => idealNumOfBuckets = d

\* C11 witness: the policy has stepped over 2805 and 2807 and answered 2809,
\* which is 53 * 53 and passes every trial division
C11Witness ==
    /\ elementCount = 8427
    /\ idealNumOfBuckets = 2809

\* the table is as it was before the step
TableUnchanged ==
    UNCHANGED <<bucketArray, numOfBuckets, numOfElements, strategyVars>>

\* C12: a put that needs a new pair and cannot allocate it returns -1 and
\* leaves the table as it was: size, bucket count, every chain and every
\* stored reference, with no release callback called.
FailedPutLeavesTable ==
    [][(/\ ret'.op = "put"
        /\ \/ ret'.val = -1
           \/ /\ ~KeyStored(ret'.key)
              /\ \E aa \in BOOLEAN :
                     HashTablePut(ret'.key, ret'.value, FALSE, aa))
          => /\ ret'.val = -1
             /\ ~KeyStored(ret'.key)
             /\ TableUnchanged
             /\ deallocated' = <<>>
      ]_vars

\* C12 witness: with both release callbacks set, a put of a third key into a
\* table of two has failed
C12Witness ==
    /\ ret.op = "put" /\ ret.val = -1
    /\ keyDeallocator = "free" /\ valueDeallocator = "free"
    /\ numOfElements = 2
    /\ HashTableGet(ret.key) = NULL

\* C13: a rehash that cannot allocate its new bucket array, whether called
\* or started by put, remove or removeAll, is given up: bucket count, chains
\* and size stay as they were when it started, every key is still found and
\* the put that started it returns 0.  (remove starts none: the lower
\* threshold is 0.)
FailedRehashIsAbandoned ==
    [][/\ (/\ ret'.op = "rehash"
           /\ \E n \in GrowTargets : hashTableRehash(n, FALSE))
             => /\ UNCHANGED <<bucketArray, numOfBuckets, numOfElements>>
                /\ AllStillRetrievable
       /\ (/\ ret'.op = "put"
           /\ OverUpperThreshold
           /\ HashTablePut(ret'.key, ret'.value, TRUE, FALSE))
             => /\ numOfBuckets' = numOfBuckets
                /\ numOfElements' = numOfElements + 1
                /\ ret'.val = 0
                /\ bucketArray' =
                       [bucketArray EXCEPT
                           ![HashValue(hashFunction, ret'.key, numOfBuckets) + 1]
                               = <<[key |-> ret'.key, value |-> ret'.value]>> \o @]
                /\ AllStillRetrievable
                /\ GetAfter(ret'.key) = ret'.value
       /\ (/\ ret'.op = "removeAll"
           /\ HashTableRemoveAll(FALSE))
             => /\ numOfBuckets' = numOfBuckets
                /\ numOfElements' = 0
                /\ bucketArray' = EmptyArray(numOfBuckets)
       /\ ret'.op = "remove" => numOfBuckets' = numOfBuckets
      ]_vars

\* C13 witness: the 16th put into one bucket could not allocate the array of
\* 5 and has left 16 retrievable keys in the one bucket
C13Witness ==
    /\ ret.op = "put" /\ ret.val = 0
    /\ ret.key = GrowKeyRef(16)
    /\ numOfElements = 16
    /\ numOfBuckets = 1
    /\ Len(bucketArray[1]) = 16
    /\ \A k \in GrowKeys : k <= GrowKeyRef(16) => HashTableGet(k) = 1

\* the number of pairs of pairs whose key, or whose value, is ref
KeyCount(pairs, ref) == Cardinality({i \in DOMAIN pairs : pairs[i].key = ref})

ValueCount(pairs, ref) == Cardinality({i \in DOMAIN pairs : pairs[i].value = ref})

\* how many fewer there are after the step than before
Dropped(before, after) == IF before > after THEN before - after ELSE 0

IndexIn(pairs, p) == CHOOSE i \in DOMAIN pairs : pairs[i] = p

\* each pair of chain but the head comes before its predecessor in pairs
ReverseOf(chain, pairs) ==
    \A i \in 1..(Len(chain) - 1) :
        IndexIn(pairs, chain[i + 1]) < IndexIn(pairs, chain[i])

\* every chain has its pairs from the one put last to the one put first
NewestFirst ==
    \A b \in DOMAIN bucketArray :
        \A i \in DOMAIN bucketArray[b], j \in DOMAIN bucketArray[b] :
            i < j => bucketArray[b][i].value > bucketArray[b][j].value

\* C15 as claimed: in every table reached by put, remove and rehash a full
\* iteration visits the buckets in ascending order and the entries of each
\* bucket from the one inserted last to the one inserted first.
IterationNewestFirst ==
    /\ FullIteration = StoredPairs
    /\ NewestFirst

\* C15 amended: a full iteration visits the buckets in ascending order and
\* each chain from its head.  A put links its pair at the head and every call
\* that leaves the bucket count alone keeps the chains newest first; a rehash
\* that changes the bucket count leaves in each chain the reverse of the
\* order in which the iteration visited its entries before.  (The first
\* conjunct is about the state a step starts in; every state starts one.)
IterationFollowsChains ==
    [][/\ FullIteration = StoredPairs
       /\ (NewestFirst /\ numOfBuckets' = numOfBuckets) => NewestFirst'
       /\ numOfBuckets' # numOfBuckets =>
              LET visited == FullIteration
              IN  \A b \in DOMAIN bucketArray' :
                      ReverseOf(bucketArray'[b], visited)
      ]_vars

\* C15 witness: a rehash has left a chain with the pair put first at its
\* head, and the iteration visits it before the pair put after it
C15Witness ==
    /\ ret.op = "rehash"
    /\ numOfElements = NumKeys
    /\ FullIteration = StoredPairs
    /\ \E i \in DOMAIN FullIteration :
          /\ i < Len(FullIteration)
          /\ HashValue(hashFunction, FullIteration[i].key, numOfBuckets)
                 = HashValue(hashFunction, FullIteration[i + 1].key, numOfBuckets)
          /\ FullIteration[i].value < FullIteration[i + 1].value

\* C16: a rehash asked for the bucket count the table has, by that count or
\* by 0 when the ideal count is that count, changes nothing: bucket array,
\* every chain and its order, size and bucket count are as before, whether or
\* not an array could be allocated.
SameSizeRehashIsNoOp ==
    [][(/\ ret'.op = "rehash"
        /\ \E aa \in BOOLEAN :
               \/ hashTableRehash(numOfBuckets, aa)
               \/ /\ calculateIdealNumOfBuckets(numOfElements) = numOfBuckets
                  /\ hashTableRehash(0, aa))
          => /\ TableUnchanged
             /\ deallocated' = <<>>
      ]_vars

\* C16 witness: a rehash by 0 has left alone a table of 5 buckets, the ideal
\* count for its three elements, two of them in one chain
C16Witness ==
    /\ ret.op = "rehash"
    /\ numOfBuckets = ClearedNumOfBuckets
    /\ numOfElements = NumKeys
    /\ \E b \in DOMAIN bucketArray : Len(bucketArray[b]) > 1

\* C17: clone returns no handle, whatever the table holds, and leaves the
\* table it was called on as it was.
CloneFailsAndLeavesTable ==
    [][ret'.op = "clone" =>
          /\ ret'.val = NULL
          /\ TableUnchanged
          /\ deallocated' = <<>>
          /\ \A k \in Keys : GetAfter(k) = HashTableGet(k)
      ]_vars

\* C17 witness: clone has been refused on a full table
C17Witness ==
    /\ ret.op = "clone"
    /\ ret.val = NULL
    /\ numOfElements = NumKeys
    /\ \A k \in Keys : HashTableGet(k) # NULL

\* C18: a put with a null key or a null value ends in the failed assert, not
\* in a returned error value, and nothing of the table has changed by then:
\* no pair added or changed, size and bucket count as before.
NullPutAbortsBeforeMutation ==
    [][((ret'.op = "put" \/ ret'.op = "abort")
            /\ (ret'.key = NULL \/ ret'.value = NULL))
          => /\ ret'.op = "abort"
             /\ TableUnchanged
             /\ deallocated' = <<>>
      ]_vars

\* C18 witness: a put of a stored key with a null value has aborted and the
\* key still has its value
C18Witness ==
    /\ ret.op = "abort"
    /\ ret.key # NULL /\ ret.value = NULL
    /\ numOfElements = 2
    /\ HashTableGet(ret.key) # NULL

\* C19: the table has at least one bucket in every state: after create with
\* a positive count and after every put, remove, removeAll, rehash(n), n >= 0,
\* and automatic rehash; bucketCount() reports that count and the bucket
\* array has that many buckets.
AtLeastOneBucket ==
    /\ numOfBuckets > 0
    /\ HashTableGetNumBuckets = numOfBuckets
    /\ Len(bucketArray) = numOfBuckets

\* C19 witness: a rehash by 0 has taken the full table from 1 bucket to 5
C19Witness ==
    /\ ret.op = "rehash"
    /\ numOfElements = MaxGrow
    /\ numOfBuckets = calculateIdealNumOfBuckets(MaxGrow)
    /\ bucketArray[1] # <<>> /\ bucketArray[2] # <<>>

\* C20: a table call between two cursor calls strands a live cursor exactly
\* when it frees the pair the cursor points at: remove of that pair's key,
\* or removeAll.  A put or a rehash leaves the cursor on a pair of the table,
\* and next on such a cursor hands back a pair of the table or the end; next
\* on a stranded cursor reads the freed pair.
Frees == \/ ret'.op = "removeAll"
         \/ ret'.op = "remove" /\ ret'.key = iter.pair /\ ret'.val = 0

CursorStrandedOnlyByFree ==
    [][/\ iter.state = "live" => iter.pair \in StoredKeys
       /\ (iter.state = "live" /\ ret'.op \notin {"getFirst", "getNext"})
              => /\ iter'.state = "stale" <=> Frees
                 /\ iter'.state \in {"live", "stale"}
                 /\ iter'.pair = iter.pair /\ iter'.bucket = iter.bucket
       /\ (iter.state = "live" /\ ret'.op = "getNext")
              => /\ iter'.state \in {"live", "null"}
                 /\ iter'.state = "live" => iter'.pair \in StoredKeys
       /\ (iter.state = "stale" /\ ret'.op \notin {"getFirst", "getNext"})
              => iter' = iter]_vars

\* C20 as stated: a rehash that runs, like a remove of the cursor's pair or a
\* removeAll, takes the cursor's pair out of the table
MutationStrandsCursor ==
    [][(/\ iter.state = "live"
        /\ \/ Frees
           \/ ret'.op = "rehash" /\ numOfBuckets' # numOfBuckets)
          => iter'.pair \notin StoredKeys']_vars

\* first, remove of the pair handed back, then next: the program stops while
\* pairs are left in the table
C20Witness ==
    /\ ret.op = "getNext"
    /\ iter.state = "fault"
    /\ numOfElements > 0

\* the count the sizing policy starts from for ne elements
PolicyStart(ne) ==
    LET quotient == ne \div IdealRatio
        odd == IF quotient % 2 = 0 THEN quotient + 1 ELSE quotient
    IN  IF odd > 5 THEN odd ELSE 5

\* n is the smallest count reachable from the start in steps of 2 that
\* passes the probable-prime test
IsPolicyResult(n, ne) ==
    /\ n >= PolicyStart(ne)
    /\ (n - PolicyStart(ne)) % 2 = 0
    /\ isProbablePrime(n)
    /\ \A m \in PolicyStart(ne)..(n - 1) :
           (m - PolicyStart(ne)) % 2 = 0 => ~isProbablePrime(m)

\* C21 as claimed: rehash(0) sets the bucket count to the result of the
\* sizing policy for the current size, and rehash(n), n > 0, sets it to n.
RehashSetsRequestedCount ==
    [][ret'.op = "rehash" =>
          \A n \in LoadTargets, aa \in BOOLEAN :
              hashTableRehash(n, aa) =>
                  IF n = 0 THEN IsPolicyResult(numOfBuckets', numOfElements)
                  ELSE numOfBuckets' = n
      ]_vars

\* C21 amended: as claimed when the new bucket array is allocated or the
\* table has the requested count already; when the allocation fails the
\* bucket count is left as it was.
RehashSetsRequestedCountIfAllocated ==
    [][ret'.op = "rehash" =>
          \A n \in LoadTargets, aa \in BOOLEAN :
              hashTableRehash(n, aa) =>
                  IF aa
                  THEN IF n = 0
                       THEN IsPolicyResult(numOfBuckets', numOfElements)
                       ELSE numOfBuckets' = n
                  ELSE /\ numOfBuckets' = numOfBuckets
                       /\ bucketArray' = bucketArray
      ]_vars

\* C21 witness: rehash(0) on 24 elements has started from 9, which 3
\* divides, and set 11 buckets
C21Witness ==
    /\ ret.op = "rehash"
    /\ numOfElements = 24
    /\ numOfBuckets = 11

\* C22: containsValue(v) returns true exactly when some pair of some chain
\* holds a value that compares equal to v under the value comparison function
\* of the table, and containsKey(k) returns true exactly when get(k) returns
\* a value.
ContainsAnswersFromPairs ==
    [][/\ ret'.op = "containsValue" =>
             /\ ret'.val \in {0, 1}
             /\ ret'.val = 1 <=>
                    \E b \in DOMAIN bucketArray : \E i \in DOMAIN bucketArray[b] :
                        ValueCmp(valuecmp, ret'.value,
                                 bucketArray[b][i].value) = 0
       /\ ret'.op = "containsKey" =>
             /\ ret'.val \in {0, 1}
             /\ ret'.val = 1 <=> HashTableGet(ret'.key) # NULL
      ]_vars

\* C22 witness: under the text comparison containsValue has found a value
\* through a reference that no pair holds, in the second bucket
C22Witness ==
    /\ ret.op = "containsValue" /\ ret.val = 1
    /\ valuecmp = "strcmp"
    /\ ret.value = KeyRef(3)
    /\ bucketArray[1] # <<>>
    /\ \A i \in DOMAIN bucketArray[1] : bucketArray[1][i].value = KeyRef(2)
    /\ \E i \in DOMAIN bucketArray[2] : bucketArray[2][i].value = KeyRef(1)

\* the number of pairs the iteration has handed out when its cursor is it:
\* the place of the pair of it among all pairs in bucket order
Visited(it) ==
    CHOOSE i \in DOMAIN StoredPairs : StoredPairs[i].key = it.pair

AbsentRemoveLeavesTable ==
    [][(ret'.op = "remove" /\ ~KeyStored(ret'.key)) =>
          /\ TableUnchanged
          /\ deallocated' = <<>>
          /\ ret'.val = 0
      ]_vars

\* C24 witness: with both release callbacks set, a remove has walked a chain
\* of a table of two pairs to its end and released nothing
C24Witness ==
    /\ ret.op = "remove"
    /\ keyDeallocator = "free" /\ valueDeallocator = "free"
    /\ deallocated = <<>>
    /\ numOfElements = 2
    /\ bucketArray[HashValue(hashFunction, ret.key, numOfBuckets) + 1] # <<>>

\* C25: remove never changes the bucket count, whatever the table and the
\* key: the lower threshold of every table is 0, which disables the rehash
\* of remove.
RemoveKeepsBucketCount ==
    [][ret'.op = "remove" =>
          /\ numOfBuckets' = numOfBuckets
          /\ Len(bucketArray') = Len(bucketArray)
      ]_vars

\* C25 witness: a remove has released the last pair of a table of 5 buckets
\* and left the 5 buckets
C25Witness ==
    /\ ret.op = "remove"
    /\ deallocated # <<>>
    /\ numOfElements = 0
    /\ numOfBuckets = calculateIdealNumOfBuckets(0)

LoadBoundedAfterInsert ==
    [][(ret'.op = "put" /\ ret'.val = 0
            /\ numOfElements' = numOfElements + 1) =>
          \A aa \in BOOLEAN :
              (aa /\ HashTablePut(ret'.key, ret'.value, TRUE, aa)) =>
                  HashTableSize' <= UpperRehashThreshold * HashTableGetNumBuckets'
      ]_vars

\* C27 witness: the last put of the fill found the table over the threshold,
\* and its rehash has left 5 buckets with the pair of the put at the end of a
\* chain
C27Witness ==
    /\ ret.op = "put" /\ ret.val = 0
    /\ ret.key = GrowKeyRef(MaxGrow)
    /\ numOfElements = MaxGrow
    /\ numOfBuckets = calculateIdealNumOfBuckets(MaxGrow)
    /\ \E b \in DOMAIN bucketArray :
          /\ Len(bucketArray[b]) > 1
          /\ bucketArray[b][Len(bucketArray[b])].key = ret.key

====
